---- MODULE Spec2Model ----
(***************************************************************************)
(* Cafe POS and inventory: the BOM-driven inventory deduction of           *)
(* bom_handler.py, the checkout of billing.py, the order flow of orders.py *)
(* and the cancellation of order_management.py, over the tables of db.py.  *)
(*                                                                         *)
(* One action is one Streamlit rerun (one button press) of one session.    *)
(* Every query_db call opens its own connection and commits on its own     *)
(* (db.py:94-112), so a handler is a sequence of separately committed      *)
(* statements; a storage error at the k-th write of a handler leaves the   *)
(* writes before it committed.                                             *)
(***************************************************************************)
EXTENDS Integers, Sequences, FiniteSets, TLC

----------------------------------------------------------------------------
(* Bounds of the model *)

\* most lines in one cart
MaxCart == 2
\* largest quantity entered for one line
MaxQty == 2
\* most invoice ids (uuid4) handed out
MaxInvoices == 2
\* most order ids (uuid4) handed out
MaxOrders == 1
\* most lines added to carts, over all sessions and pages
MaxAdds == 2
\* most storage errors in one behaviour
MaxFaults == 1

Sessions == {"s1", "s2"}

None == 0

----------------------------------------------------------------------------
(* bom_handler.py: static tables *)

INGREDIENT_UNITS ==
    ("Espresso Beans" :> "g") @@ ("Milk" :> "ml") @@
    ("Hot Water" :> "ml") @@ ("Chocolate Syrup" :> "g")

DEFAULT_BOM ==
    ("C1001" :> ("Espresso Beans" :> 18)) @@
    ("C1002" :> (("Espresso Beans" :> 18) @@ ("Milk" :> 150))) @@
    ("C1003" :> (("Espresso Beans" :> 18) @@ ("Milk" :> 200))) @@
    ("C1004" :> (("Espresso Beans" :> 18) @@ ("Hot Water" :> 150))) @@
    ("C1005" :> (("Espresso Beans" :> 18) @@ ("Milk" :> 150) @@ ("Chocolate Syrup" :> 25)))

\* INGREDIENT_UNITS.get(ing, "")
\* the unit table is not consulted
UnitOfBlank(ing) == ""

UnitOf(ing) == IF ing \in DOMAIN INGREDIENT_UNITS THEN INGREDIENT_UNITS[ing] ELSE ""

\* the rows ensure_bom_seeded builds from DEFAULT_BOM
DefaultBomRows ==
    UNION { { [product_id |-> pid, ingredient |-> ing,
                qty_per_unit |-> DEFAULT_BOM[pid][ing], unit |-> UnitOf(ing)] :
                ing \in DOMAIN DEFAULT_BOM[pid] } : pid \in DOMAIN DEFAULT_BOM }

\* A bom table seeded by an earlier revision of DEFAULT_BOM: the table is seeded
\* only while it is empty (bom_handler.py:41-43), so the rows of a database that
\* was seeded before DEFAULT_BOM was tweaked stay as they were.
LegacyBomRows ==
    { [product_id |-> "C1003", ingredient |-> "Espresso Beans", qty_per_unit |-> 18, unit |-> "g"],
      [product_id |-> "C1003", ingredient |-> "Milk", qty_per_unit |-> 200, unit |-> "ml"],
      [product_id |-> "C1002", ingredient |-> "Milk", qty_per_unit |-> 100, unit |-> "ml"],
      [product_id |-> "C1006", ingredient |-> "Sugar", qty_per_unit |-> 5, unit |-> ""] }

\* every ingredient name a bom row of the model can hold
Ingredients == DOMAIN INGREDIENT_UNITS \cup {"Sugar"}

\* SELECT ... FROM bom WHERE product_id=? has no ORDER BY: the rows come in the
\* order of the clustered primary key (product_id, ingredient), db.py:82-88
IngredientOrder == <<"Chocolate Syrup", "Espresso Beans", "Hot Water", "Milk", "Sugar">>

----------------------------------------------------------------------------
(* billing.py: the catalogue (prices in cents) *)

PRODUCTS ==
    ("C1001" :> [name |-> "Amaretto", price |-> 250]) @@
    ("C1002" :> [name |-> "Caffe Latte", price |-> 300]) @@
    ("C1003" :> [name |-> "Caffe Mocha", price |-> 320]) @@
    ("C1004" :> [name |-> "Chamomile", price |-> 280]) @@
    ("C1005" :> [name |-> "Columbian", price |-> 350]) @@
    ("C1006" :> [name |-> "Darjeeling", price |-> 250]) @@
    ("C1007" :> [name |-> "Decaf Espresso", price |-> 300]) @@
    ("C1008" :> [name |-> "Decaf Irish Cream", price |-> 320]) @@
    ("C1009" :> [name |-> "Earl Grey", price |-> 280]) @@
    ("C1010" :> [name |-> "Green Tea", price |-> 350]) @@
    ("C1011" :> [name |-> "Lemon", price |-> 320]) @@
    ("C1012" :> [name |-> "Mint", price |-> 280]) @@
    ("C1013" :> [name |-> "Regular Espresso", price |-> 350])

ProductOrder ==
    <<"C1001", "C1002", "C1003", "C1004", "C1005", "C1006", "C1007",
      "C1008", "C1009", "C1010", "C1011", "C1012", "C1013">>

\* the products the model's sessions pick in the selectbox: two that share
\* ingredients and one without a recipe in DEFAULT_BOM
CartProducts == {"C1002", "C1003", "C1006"}

\* the dict appended to the cart by "Add to Cart" / "Add Item"
CartLine(pid, qty) ==
    [product_id |-> pid, product_name |-> PRODUCTS[pid].name, quantity |-> qty,
     unit_price |-> PRODUCTS[pid].price, total |-> PRODUCTS[pid].price * qty]

\* list.pop(idx)
Pop(seq, idx) == [i \in 1..(Len(seq) - 1) |-> IF i < idx THEN seq[i] ELSE seq[i + 1]]

----------------------------------------------------------------------------
(* bom_handler.py: calculate_deduction *)

\* A Python dict keeps its keys in insertion order: a sequence of key/value pairs.
DictHas(d, k) == \E i \in 1..Len(d) : d[i].key = k
DictGet(d, k, default) ==
    IF DictHas(d, k) THEN d[CHOOSE i \in 1..Len(d) : d[i].key = k].value ELSE default
DictSet(d, k, v) ==
    IF DictHas(d, k)
    THEN [i \in 1..Len(d) |-> IF d[i].key = k THEN [key |-> k, value |-> v] ELSE d[i]]
    ELSE Append(d, [key |-> k, value |-> v])
DictKeys(d) == [i \in 1..Len(d) |-> d[i].key]
KeySet(d) == {d[i].key : i \in 1..Len(d)}

\* fetch_df("SELECT ingredient, qty_per_unit FROM bom WHERE product_id=?")
RECURSIVE SelectBomFrom(_, _, _)
SelectBomFrom(bomT, pid, i) ==
    IF i > Len(IngredientOrder) THEN <<>>
    ELSE LET rs == {r \in bomT : r.product_id = pid /\ r.ingredient = IngredientOrder[i]}
         IN (IF rs = {} THEN <<>> ELSE <<CHOOSE r \in rs : TRUE>>)
            \o SelectBomFrom(bomT, pid, i + 1)
SelectBom(bomT, pid) == SelectBomFrom(bomT, pid, 1)

\* deduction[ing] = per_unit * qty: the running total is dropped
AccumulateOverwrite(deduction, ing, amount) == DictSet(deduction, ing, amount)

\* the first amount of an ingredient is kept, later ones are dropped
AccumulateFirst(deduction, ing, amount) ==
    IF DictHas(deduction, ing) THEN deduction ELSE DictSet(deduction, ing, amount)

\* deduction[ing] = deduction.get(ing, 0.0) + per_unit * qty
Accumulate(deduction, ing, amount) ==
    DictSet(deduction, ing, DictGet(deduction, ing, 0) + amount)

RECURSIVE DeductRows(_, _, _)
DeductRows(deduction, rows, qty) ==
    IF rows = <<>> THEN deduction
    ELSE DeductRows(Accumulate(deduction, Head(rows).ingredient,
                               Head(rows).qty_per_unit * qty),
                    Tail(rows), qty)

RECURSIVE DeductCart(_, _, _)
DeductCart(deduction, bomT, cart) ==
    IF cart = <<>> THEN deduction
    ELSE DeductCart(DeductRows(deduction, SelectBom(bomT, Head(cart).product_id),
                               Head(cart).quantity),
                    bomT, Tail(cart))

\* the accumulator starts with every ingredient of the bom table at 0
CalculateDeductionZeroed(bomT, cart) ==
    DeductCart([i \in 1..Len(SelectSeq(IngredientOrder,
                                        LAMBDA ing : \E r \in bomT : r.ingredient = ing)) |->
                   [key |-> SelectSeq(IngredientOrder,
                                      LAMBDA ing : \E r \in bomT : r.ingredient = ing)[i],
                    value |-> 0]],
               bomT, cart)

\* the loop of calculate_deduction over the (seeded) bom table
CalculateDeduction(bomT, cart) == DeductCart(<<>>, bomT, cart)

----------------------------------------------------------------------------
(* db.py: the tables and the statements the handlers send through query_db *)

\* the tables right after init_db / ensure_order_tables, with the bom table b
EmptyDb(b) ==
    [bom |-> b, customers |-> {}, inventory |-> {}, inventory_logs |-> <<>>,
     billing |-> <<>>, orders |-> {}, order_items |-> {}]

InventoryRows(inv, ing) == {r \in inv : r.ingredient = ing}

\* ISNULL(quantity, 0) of the row of ing, 0 when there is no row
QuantityOf(inv, ing) ==
    IF InventoryRows(inv, ing) = {} THEN 0
    ELSE (CHOOSE r \in InventoryRows(inv, ing) : TRUE).quantity

\* the row is written whether or not it is matched: an existing row is reset
MergeNotMatchedReplace(inv, ing, unit) ==
    (inv \ InventoryRows(inv, ing))
        \cup {[ingredient |-> ing, quantity |-> 0, unit |-> unit, safety_stock |-> 0]}

\* MERGE inventory ... WHEN NOT MATCHED THEN INSERT (ingredient, 0, unit):
\* billing.py:64-70, orders.py:141-146, inventory.py:38-45. safety_stock is
\* inserted as 0 or left to its DEFAULT 0 (db.py:46).
MergeNotMatched(inv, ing, unit) ==
    IF InventoryRows(inv, ing) # {} THEN inv
    ELSE inv \cup {[ingredient |-> ing, quantity |-> 0, unit |-> unit, safety_stock |-> 0]}

\* the MERGE of upsert_inventory_row: WHEN MATCHED THEN UPDATE SET unit
MergeUpdateUnit(inv, ing, unit) ==
    IF InventoryRows(inv, ing) # {}
    THEN {IF r.ingredient = ing THEN [r EXCEPT !.unit = unit] ELSE r : r \in inv}
    ELSE inv \cup {[ingredient |-> ing, quantity |-> 0, unit |-> unit, safety_stock |-> 0]}

\* the saved row replaces the whole table
MergeUpsertReplacing(inv, row) == {row}

\* the MERGE of save_inventory_df (inventory.py:131-144): WHEN MATCHED THEN
\* UPDATE SET quantity, unit, safety_stock; WHEN NOT MATCHED THEN INSERT
MergeUpsert(inv, row) == (inv \ InventoryRows(inv, row.ingredient)) \cup {row}

\* the quantity is floored at 0
UpdateQuantityFloored(inv, ing, delta) ==
    {IF r.ingredient = ing
     THEN [r EXCEPT !.quantity = IF @ + delta < 0 THEN 0 ELSE @ + delta]
     ELSE r : r \in inv}

\* UPDATE inventory SET quantity = ISNULL(quantity, 0) + delta WHERE ingredient = ?
UpdateQuantity(inv, ing, delta) ==
    {IF r.ingredient = ing THEN [r EXCEPT !.quantity = @ + delta] ELSE r : r \in inv}

SeqToSet(seq) == {seq[i] : i \in 1..Len(seq)}

\* One SQL statement on the tables: [db, error]. A statement that violates a
\* key constraint is rolled back by conn.close() and raises (db.py:107-112).
Execute(d, op) ==
    CASE op.kind = "SeedBom" ->
            IF \E r \in op.rows : \E b \in d.bom :
                   b.product_id = r.product_id /\ b.ingredient = r.ingredient
            THEN [db |-> d, error |-> TRUE]
            ELSE [db |-> [d EXCEPT !.bom = @ \cup op.rows], error |-> FALSE]
      [] op.kind = "InsertCustomer" ->
            IF \E c \in d.customers :
                   c.customer_id = op.row.customer_id
                   \/ c.customer_number = op.row.customer_number
            THEN [db |-> d, error |-> TRUE]
            ELSE [db |-> [d EXCEPT !.customers = @ \cup {op.row}], error |-> FALSE]
      [] op.kind = "InsertBilling" ->
            [db |-> [d EXCEPT !.billing = Append(@, op.row)], error |-> FALSE]
      [] op.kind = "MergeInventory" ->
            [db |-> [d EXCEPT !.inventory = MergeNotMatched(@, op.ingredient, op.unit)],
             error |-> FALSE]
      [] op.kind = "UpsertInventoryRow" ->
            [db |-> [d EXCEPT !.inventory = MergeUpdateUnit(@, op.ingredient, op.unit)],
             error |-> FALSE]
      [] op.kind = "UpsertInventory" ->
            [db |-> [d EXCEPT !.inventory = MergeUpsert(@, op.row)], error |-> FALSE]
      [] op.kind = "InsertInventory" ->
            \* ingredient is the primary key (db.py:42)
            IF InventoryRows(d.inventory, op.row.ingredient) # {}
            THEN [db |-> d, error |-> TRUE]
            ELSE [db |-> [d EXCEPT !.inventory = @ \cup {op.row}], error |-> FALSE]
      [] op.kind = "ReplaceInventory" ->
            \* TRUNCATE and the INSERTs in one transaction (db.py:136-148)
            IF \E i, j \in 1..Len(op.rows) :
                   i # j /\ op.rows[i].ingredient = op.rows[j].ingredient
            THEN [db |-> d, error |-> TRUE]
            ELSE [db |-> [d EXCEPT !.inventory = SeqToSet(op.rows)], error |-> FALSE]
      [] op.kind = "InsertLog" ->
            [db |-> [d EXCEPT !.inventory_logs = Append(@, op.row)], error |-> FALSE]
      [] op.kind = "UpdateInventory" ->
            [db |-> [d EXCEPT !.inventory = UpdateQuantity(@, op.ingredient, op.delta)],
             error |-> FALSE]
      [] op.kind = "InsertOrder" ->
            IF \E o \in d.orders : o.order_id = op.row.order_id
            THEN [db |-> d, error |-> TRUE]
            ELSE [db |-> [d EXCEPT !.orders = @ \cup {op.row}], error |-> FALSE]
      [] op.kind = "DeleteOrderItems" ->
            [db |-> [d EXCEPT !.order_items = {r \in @ : r.order_id # op.order_id}],
             error |-> FALSE]
      [] op.kind = "InsertOrderItems" ->
            \* executemany in one connection: all rows or, on a duplicate
            \* (order_id, product_id), none (orders.py:35)
            IF \/ \E i, j \in 1..Len(op.rows) :
                      i # j /\ op.rows[i].order_id = op.rows[j].order_id
                            /\ op.rows[i].product_id = op.rows[j].product_id
               \/ \E i \in 1..Len(op.rows) : \E r \in d.order_items :
                      r.order_id = op.rows[i].order_id
                      /\ r.product_id = op.rows[i].product_id
            THEN [db |-> d, error |-> TRUE]
            ELSE [db |-> [d EXCEPT !.order_items = @ \cup SeqToSet(op.rows)],
                  error |-> FALSE]
      [] op.kind = "UpdateOrderStatus" ->
            [db |-> [d EXCEPT !.orders =
                        {IF o.order_id = op.order_id THEN [o EXCEPT !.status = op.status]
                         ELSE o : o \in @}],
             error |-> FALSE]
      [] op.kind = "UpdateOrderPaid" ->
            [db |-> [d EXCEPT !.orders =
                        {IF o.order_id = op.order_id
                         THEN [o EXCEPT !.status = "Paid", !.customer_id = op.customer_id,
                                        !.customer_number = op.customer_number,
                                        !.customer_name = op.customer_name]
                         ELSE o : o \in @}],
             error |-> FALSE]
      [] op.kind = "UpdateBillingStatus" ->
            [db |-> [d EXCEPT !.billing =
                        [i \in 1..Len(@) |->
                            IF @[i].invoice_id = op.invoice_id
                            THEN [@[i] EXCEPT !.status = op.status] ELSE @[i]]],
             error |-> FALSE]

\* query_db with the error of a failed statement swallowed: the caller goes on
QueryDbSwallow(d, op, broken, ignore_errors) ==
    LET r == IF broken THEN [db |-> d, error |-> TRUE] ELSE Execute(d, op)
    IN  [db |-> r.db, raised |-> FALSE, done |-> ~r.error]

\* query_db: execute, commit, and re-raise unless ignore_errors. broken: the
\* storage fails on this statement (connection lost, timeout).
QueryDb(d, op, broken, ignore_errors) ==
    LET r == IF broken THEN [db |-> d, error |-> TRUE] ELSE Execute(d, op)
    IN  [db |-> r.db, raised |-> r.error /\ ~ignore_errors, done |-> ~r.error]

\* no handler of the model sends more writes than this in one rerun
MaxWrites == 3 + MaxCart + 2 * Cardinality(Ingredients)

\* The run of one handler: the tables, whether an exception is propagating,
\* the number of writes sent so far and which of them the storage fails (0:
\* none), and what the handler got done: billing rows inserted (nb), inventory
\* rows ensured (ens), quantity updates applied (app), and whether a quantity
\* update was sent for an ingredient that did not have exactly one row (miss).
Begin(d, fail) ==
    [db |-> d, raised |-> FALSE, n |-> 0, fail |-> fail,
     nb |-> 0, ens |-> 0, app |-> 0, miss |-> FALSE]

\* one write through query_db; nothing runs once an exception propagates
Write(st, op) ==
    IF st.raised THEN st
    ELSE LET r == QueryDb(st.db, op, st.n + 1 = st.fail, FALSE)
         IN  [st EXCEPT !.db = r.db,
                        !.raised = r.raised,
                        !.n = @ + 1,
                        !.nb = IF r.done /\ op.kind = "InsertBilling" THEN @ + 1 ELSE @,
                        !.ens = IF r.done /\ op.kind = "MergeInventory" THEN @ + 1 ELSE @,
                        !.app = IF r.done /\ op.kind = "UpdateInventory" THEN @ + 1 ELSE @,
                        !.miss = @ \/ (r.done /\ op.kind = "UpdateInventory"
                                       /\ Cardinality(InventoryRows(st.db.inventory,
                                                                    op.ingredient)) # 1)]

----------------------------------------------------------------------------
(* State *)

VARIABLES
    db,                 \* the SQL Server tables
    cart,               \* st.session_state.cart of each session (billing page)
    order_cart,         \* st.session_state.order_cart of each session (orders page)
    current_order_id,   \* st.session_state.current_order_id of each session
    sales,              \* history: one record per invoice id handed out
    missed,             \* history: a quantity UPDATE met no single inventory row
    adds,               \* history: the number of lines added to carts so far
    faults,             \* history: the number of storage errors so far
    inventory_edit_enabled, \* st.session_state.inventory_edit_enabled of each session
    login_prompt,       \* st.session_state.login_prompt of each session
    calls,              \* history: the direct calls of calculate_deduction
    proc,               \* the handler each session is in the middle of
    expected            \* history: the quantities if no committed write was lost

\* the state of the inventory page, of direct calls and of handlers in progress
other_state == <<inventory_edit_enabled, login_prompt, calls, proc, expected>>

\* a session that is not in the middle of a handler
Idle == [ops |-> <<>>, matched |-> FALSE, raised |-> FALSE]

vars == <<db, cart, order_cart, current_order_id, sales, missed, adds, faults,
          other_state>>

\* what is typed into "Customer Number" and "Customer Name"
CustomerNumbers == {"", " ", "n1"}
CustomerNames == {"", "Ann"}

\* str.strip() on the strings above
Strip(x) == IF x = " " THEN "" ELSE x

----------------------------------------------------------------------------
(* bom_handler.py: ensure_bom_seeded *)

\* seeding tops the table up with the default rows it does not hold yet
EnsureBomSeededToppingUp(st) ==
    IF st.raised THEN st
    ELSE Write(st, [kind |-> "SeedBom",
                    rows |-> {r \in DefaultBomRows :
                                 ~\E b \in st.db.bom :
                                     b.product_id = r.product_id
                                     /\ b.ingredient = r.ingredient}])

EnsureBomSeeded(st) ==
    IF st.raised \/ st.db.bom # {} THEN st
    ELSE Write(st, [kind |-> "SeedBom", rows |-> DefaultBomRows])

----------------------------------------------------------------------------
(* billing.py *)

\* returns (customer_id, customer_name); (None, None) is id None
GetOrCreateCustomer(st, customer_number, customer_name) ==
    LET number == Strip(customer_number)
        row == {c \in st.db.customers : c.customer_number = number}
        name == Strip(customer_name)
        \* f"CUST-{count + 1:04d}": the id is the number count + 1
        new_id == Cardinality(st.db.customers) + 1
    IN  IF number = "" THEN [st |-> st, id |-> None, name |-> ""]
        ELSE IF row # {}
        THEN LET c == CHOOSE c \in row : TRUE
             IN  [st |-> st, id |-> c.customer_id, name |-> c.customer_name]
        ELSE IF name = "" THEN [st |-> st, id |-> None, name |-> ""]
        ELSE [st |-> Write(st, [kind |-> "InsertCustomer",
                                row |-> [customer_id |-> new_id,
                                         customer_number |-> number,
                                         customer_name |-> name]]),
              id |-> new_id, name |-> name]

\* The row of INSERT INTO billing. The statement names no status; the column
\* read by order_management.py:11-26 is not created by db.py:64-77, and the
\* only default under which that page lists an invoice is 'ongoing'.
BillingRow(invoice_id, cust_id, item) ==
    [invoice_id |-> invoice_id, customer_id |-> cust_id,
     product_id |-> item.product_id, product_name |-> item.product_name,
     quantity |-> item.quantity, unit_price |-> item.unit_price,
     total |-> item.total, status |-> "ongoing"]

RECURSIVE InsertBillingRows(_, _, _, _)
InsertBillingRows(st, invoice_id, cust_id, items) ==
    IF items = <<>> THEN st
    ELSE InsertBillingRows(
             Write(st, [kind |-> "InsertBilling",
                        row |-> BillingRow(invoice_id, cust_id, Head(items))]),
             invoice_id, cust_id, Tail(items))

\* the rows are not ensured at all
EnsureInventoryRowsExistSkip(st, ingredients) == st

RECURSIVE EnsureInventoryRowsExist(_, _)
EnsureInventoryRowsExist(st, ingredients) ==
    IF ingredients = <<>> THEN st
    ELSE EnsureInventoryRowsExist(
             Write(st, [kind |-> "MergeInventory", ingredient |-> Head(ingredients),
                        unit |-> UnitOf(Head(ingredients))]),
             Tail(ingredients))

\* for ing, dec_qty in deduction.items(): UPDATE ... quantity - dec_qty
RECURSIVE DeductQuantities(_, _)
DeductQuantities(st, deduction) ==
    IF deduction = <<>> THEN st
    ELSE DeductQuantities(
             Write(st, [kind |-> "UpdateInventory", ingredient |-> Head(deduction).key,
                        delta |-> 0 - Head(deduction).value]),
             Tail(deduction))

\* what the history keeps of the inventory: the quantity of each key of a
\* deduction, 0 for an ingredient with no row
Snapshot(inv, deduction) == [ing \in KeySet(deduction) |-> QuantityOf(inv, ing)]

\* how a handler ended before an invoice id was made: the exception of a
\* failed statement, st.warning, st.error / a returned error message
Ended(st, outcome) ==
    [st |-> st, outcome |-> outcome, invoice |-> None, items |-> <<>>,
     deduction |-> <<>>, computed |-> FALSE]

\* how a handler ended after invoice_id was made
Sold(st, invoice_id, items, deduction, computed) ==
    [st |-> st, outcome |-> IF st.raised THEN "raised" ELSE "success",
     invoice |-> invoice_id, items |-> items, deduction |-> deduction,
     computed |-> computed]

\* a sale whose deduction is empty is refused
SaveInvoiceDeductStrict(st, items, invoice_id, deduction) ==
    IF deduction = <<>> THEN Ended(st, "error")
    ELSE Sold(DeductQuantities(EnsureInventoryRowsExist(st, DictKeys(deduction)),
                               deduction),
              invoice_id, items, deduction, TRUE)

\* billing.py:166-173: deduction = calculate_deduction(cart); if deduction: ...
SaveInvoiceDeduct(st, items, invoice_id, deduction) ==
    Sold(IF deduction = <<>> THEN st
         ELSE DeductQuantities(EnsureInventoryRowsExist(st, DictKeys(deduction)),
                               deduction),
         invoice_id, items, deduction, TRUE)

\* billing.py:166: calculate_deduction seeds the BOM, then reads it
SaveInvoiceBilled(st, items, invoice_id) ==
    IF st.raised THEN Sold(st, invoice_id, items, <<>>, FALSE)
    ELSE SaveInvoiceDeduct(st, items, invoice_id, CalculateDeduction(st.db.bom, items))

\* billing.py:147-166, with the result of get_or_create_customer
SaveInvoiceFor(cust, items, invoice_id) ==
    IF cust.st.raised THEN Ended(cust.st, "raised")
    ELSE IF cust.id = None THEN Ended(cust.st, "error")
    ELSE SaveInvoiceBilled(
             EnsureBomSeeded(InsertBillingRows(cust.st, invoice_id, cust.id, items)),
             items, invoice_id)

\* billing.py:126-135: the name passed on is the stored name of a known
\* number and the "Customer Name (New Customer)" input otherwise
NameShown(d, customer_number, name_input) ==
    LET row == {c \in d.customers : c.customer_number = customer_number}
    IN  IF row # {} THEN (CHOOSE c \in row : TRUE).customer_name ELSE name_input

\* billing.py:125-145, after the page top has run
SaveInvoiceFrom(st, items, customer_number, name_input, invoice_id) ==
    IF st.raised THEN Ended(st, "raised")
    ELSE IF customer_number = "" THEN Ended(st, "warning")
    ELSE SaveInvoiceFor(
             GetOrCreateCustomer(st, customer_number,
                                 NameShown(st.db, customer_number, name_input)),
             items, invoice_id)

\* the "Save Invoice" rerun of billing_page on the tables d
SaveInvoiceRun(d, items, number_input, name_input, invoice_id, fail) ==
    SaveInvoiceFrom(EnsureBomSeeded(Begin(d, fail)), items, Strip(number_input),
                    name_input, invoice_id)

\* the history record of the invoice a run handed out
SaleRecord(order_id, items, d, r) ==
    [order |-> order_id, lines |-> items, deduction |-> r.deduction,
     computed |-> r.computed, nb |-> r.st.nb, ens |-> r.st.ens, app |-> r.st.app,
     outcome |-> r.outcome, restocks |-> <<>>,
     pre |-> Snapshot(d.inventory, r.deduction),
     post |-> Snapshot(r.st.db.inventory, r.deduction)]

\* "Add to Cart" on the billing page
AddToCart(s, pid, qty) ==
    /\ Len(cart[s]) < MaxCart
    /\ adds < MaxAdds
    /\ adds' = adds + 1
    /\ db' = EnsureBomSeeded(Begin(db, 0)).db
    /\ cart' = [cart EXCEPT ![s] = Append(@, CartLine(pid, qty))]
    /\ UNCHANGED <<order_cart, current_order_id, sales, missed, faults, other_state>>

\* the remove button of line idx on the billing page
RemoveFromCart(s, idx) ==
    /\ idx \in 1..Len(cart[s])
    /\ db' = EnsureBomSeeded(Begin(db, 0)).db
    /\ cart' = [cart EXCEPT ![s] = Pop(@, idx)]
    /\ UNCHANGED <<order_cart, current_order_id, sales, missed, adds, faults, other_state>>

\* what the session and the history keep of the run r of "Save Invoice"
SaveInvoiceEnd(s, r, fail) ==
    /\ fail # 0 => faults < MaxFaults /\ r.st.n >= fail
    /\ faults' = IF fail = 0 THEN faults ELSE faults + 1
    /\ r.invoice # None => Len(sales) < MaxInvoices
    /\ db' = r.st.db
    /\ cart' = IF r.outcome = "success" THEN [cart EXCEPT ![s] = <<>>] ELSE cart
    /\ sales' = IF r.invoice = None THEN sales
                ELSE Append(sales, SaleRecord(None, r.items, db, r))
    /\ missed' = (missed \/ r.st.miss)
    /\ UNCHANGED <<order_cart, current_order_id, adds, other_state>>

\* "Save Invoice" on the billing page; the button is drawn only for a
\* non-empty cart (billing.py:97-99)
SaveInvoice(s, number_input, name_input, fail) ==
    /\ cart[s] # <<>>
    /\ SaveInvoiceEnd(s, SaveInvoiceRun(db, cart[s], number_input, name_input,
                                        Len(sales) + 1, fail), fail)

----------------------------------------------------------------------------
(* orders.py *)

\* same statements as billing.get_or_create_customer
UpsertCustomer(st, customer_number, customer_name) ==
    LET number == Strip(customer_number)
        row == {c \in st.db.customers : c.customer_number = number}
        name == Strip(customer_name)
        new_id == Cardinality(st.db.customers) + 1
    IN  IF number = "" THEN [st |-> st, id |-> None, name |-> ""]
        ELSE IF row # {}
        THEN LET c == CHOOSE c \in row : TRUE
             IN  [st |-> st, id |-> c.customer_id, name |-> c.customer_name]
        ELSE IF name = "" THEN [st |-> st, id |-> None, name |-> ""]
        ELSE [st |-> Write(st, [kind |-> "InsertCustomer",
                                row |-> [customer_id |-> new_id,
                                         customer_number |-> number,
                                         customer_name |-> name]]),
              id |-> new_id, name |-> name]

\* the orders with status 'Pending', as the "Load" selectbox lists them
ListPendingOrders(d) == {o.order_id : o \in {x \in d.orders : x.status = "Pending"}}

\* SELECT ... FROM order_items WHERE order_id=?: the rows in the order of the
\* clustered key PK_order_items (order_id, product_id)
RECURSIVE LoadOrderItemsFrom(_, _, _)
LoadOrderItemsFrom(d, order_id, i) ==
    IF i > Len(ProductOrder) THEN <<>>
    ELSE LET rs == {r \in d.order_items :
                        r.order_id = order_id /\ r.product_id = ProductOrder[i]}
         IN (IF rs = {} THEN <<>>
             ELSE LET r == CHOOSE r \in rs : TRUE
                  IN  <<[product_id |-> r.product_id, product_name |-> r.product_name,
                         quantity |-> r.quantity, unit_price |-> r.unit_price,
                         total |-> r.total]>>)
            \o LoadOrderItemsFrom(d, order_id, i + 1)
LoadOrderItems(d, order_id) == LoadOrderItemsFrom(d, order_id, 1)

OrderItemRows(order_id, items) ==
    [i \in 1..Len(items) |->
        [order_id |-> order_id, product_id |-> items[i].product_id,
         product_name |-> items[i].product_name, quantity |-> items[i].quantity,
         unit_price |-> items[i].unit_price, total |-> items[i].total]]

\* the stock of the order's lines is taken when the order is parked
SaveCartToOrderDeducting(st, order_id, items) ==
    DeductQuantities(
        EnsureInventoryRowsExist(
            Write(Write(st, [kind |-> "DeleteOrderItems", order_id |-> order_id]),
                  [kind |-> "InsertOrderItems", rows |-> OrderItemRows(order_id, items)]),
            DictKeys(CalculateDeduction(st.db.bom, items))),
        CalculateDeduction(st.db.bom, items))

\* replace order_items for this order_id: DELETE, then one executemany INSERT
SaveCartToOrder(st, order_id, items) ==
    LET st1 == Write(st, [kind |-> "DeleteOrderItems", order_id |-> order_id])
    IN  IF items = <<>> THEN st1
        ELSE Write(st1, [kind |-> "InsertOrderItems",
                         rows |-> OrderItemRows(order_id, items)])

NewOrderRow(order_id) ==
    [order_id |-> order_id, customer_id |-> None, customer_number |-> "",
     customer_name |-> "", status |-> "Pending"]

\* for ing, dec_qty in deduction.items(): MERGE ...; UPDATE ... quantity - dec_qty
RECURSIVE MergeAndDeduct(_, _)
MergeAndDeduct(st, deduction) ==
    IF deduction = <<>> THEN st
    ELSE MergeAndDeduct(
             Write(Write(st, [kind |-> "MergeInventory",
                              ingredient |-> Head(deduction).key,
                              unit |-> UnitOf(Head(deduction).key)]),
                   [kind |-> "UpdateInventory", ingredient |-> Head(deduction).key,
                    delta |-> 0 - Head(deduction).value]),
             Tail(deduction))

\* orders.py:136-155: the deduction loop, then the order header
FinalizeDeduct(st, order_id, customer_number, cust, invoice_id, items, deduction) ==
    Sold(Write(MergeAndDeduct(st, deduction),
               [kind |-> "UpdateOrderPaid", order_id |-> order_id,
                customer_id |-> cust.id, customer_number |-> customer_number,
                customer_name |-> cust.name]),
         invoice_id, items, deduction, TRUE)

\* orders.py:137: calculate_deduction seeds the BOM, then reads it
FinalizeBilled(st, order_id, customer_number, cust, invoice_id, items) ==
    IF st.raised THEN Sold(st, invoice_id, items, <<>>, FALSE)
    ELSE FinalizeDeduct(st, order_id, customer_number, cust, invoice_id, items,
                        CalculateDeduction(st.db.bom, items))

\* orders.py:117-137, with the items of the order
FinalizeItems(cust, order_id, customer_number, invoice_id, items) ==
    IF items = <<>>
    THEN \* return None, "Order has no items."
         Ended(cust.st, "error")
    ELSE FinalizeBilled(
             EnsureBomSeeded(InsertBillingRows(cust.st, invoice_id, cust.id, items)),
             order_id, customer_number, cust, invoice_id, items)

\* orders.py:113-118, with the result of upsert_customer
FinalizeFor(cust, order_id, customer_number, invoice_id) ==
    IF cust.st.raised THEN Ended(cust.st, "raised")
    ELSE IF cust.id = None
    THEN \* return None, "Customer name required for new customer."
         Ended(cust.st, "error")
    ELSE FinalizeItems(cust, order_id, customer_number, invoice_id,
                       LoadOrderItems(cust.st.db, order_id))

\* orders.py:110-113, after ensure_bom_seeded()
FinalizeFrom(st, order_id, customer_number, customer_name_input, invoice_id) ==
    IF st.raised THEN Ended(st, "raised")
    ELSE FinalizeFor(UpsertCustomer(st, customer_number, customer_name_input),
                     order_id, customer_number, invoice_id)

\* finalize_payment(order_id, customer_number, customer_name_input)
FinalizePayment(d, order_id, customer_number, customer_name_input, invoice_id, fail) ==
    FinalizeFrom(EnsureBomSeeded(Begin(d, fail)), order_id, customer_number,
                 customer_name_input, invoice_id)

\* "Add Item" on the orders page
AddItem(s, pid, qty) ==
    /\ Len(order_cart[s]) < MaxCart
    /\ adds < MaxAdds
    /\ adds' = adds + 1
    /\ order_cart' = [order_cart EXCEPT ![s] = Append(@, CartLine(pid, qty))]
    /\ UNCHANGED <<db, cart, current_order_id, sales, missed, faults, other_state>>

\* the remove button of line idx on the orders page
RemoveItem(s, idx) ==
    /\ idx \in 1..Len(order_cart[s])
    /\ order_cart' = [order_cart EXCEPT ![s] = Pop(@, idx)]
    /\ UNCHANGED <<db, cart, current_order_id, sales, missed, adds, faults, other_state>>

\* the next uuid4 for an order: the ids are numbered as they are handed out
FreshOrderId == Cardinality(db.orders) + 1

\* "New Order"
NewOrder(s) ==
    /\ Cardinality(db.orders) < MaxOrders
    /\ current_order_id' = [current_order_id EXCEPT ![s] = FreshOrderId]
    /\ order_cart' = [order_cart EXCEPT ![s] = <<>>]
    /\ db' = Write(Begin(db, 0), [kind |-> "InsertOrder",
                                  row |-> NewOrderRow(FreshOrderId)]).db
    /\ UNCHANGED <<cart, sales, missed, adds, faults, other_state>>

\* "Park / Update Order"; the button is disabled while the cart is empty
ParkOrder(s) ==
    /\ order_cart[s] # <<>>
    /\ current_order_id[s] = None => Cardinality(db.orders) < MaxOrders
    /\ LET oid == IF current_order_id[s] = None THEN FreshOrderId
                  ELSE current_order_id[s]
           st0 == IF current_order_id[s] = None
                  THEN Write(Begin(db, 0), [kind |-> "InsertOrder",
                                            row |-> NewOrderRow(oid)])
                  ELSE Begin(db, 0)
           st1 == SaveCartToOrder(st0, oid, order_cart[s])
       IN  /\ current_order_id' = [current_order_id EXCEPT ![s] = oid]
           /\ db' = st1.db
    /\ UNCHANGED <<cart, order_cart, sales, missed, adds, faults, other_state>>

\* "Cancel Order" on the orders page; disabled without a current order
CancelOrder(s) ==
    /\ current_order_id[s] # None
    /\ db' = Write(Write(Begin(db, 0),
                         [kind |-> "UpdateOrderStatus",
                          order_id |-> current_order_id[s], status |-> "Cancelled"]),
                   [kind |-> "DeleteOrderItems",
                    order_id |-> current_order_id[s]]).db
    /\ current_order_id' = [current_order_id EXCEPT ![s] = None]
    /\ order_cart' = [order_cart EXCEPT ![s] = <<>>]
    /\ UNCHANGED <<cart, sales, missed, adds, faults, other_state>>

\* "Load Selected": one of the pending orders listed in this rerun
LoadSelected(s, oid) ==
    /\ oid \in ListPendingOrders(db)
    /\ current_order_id' = [current_order_id EXCEPT ![s] = oid]
    /\ order_cart' = [order_cart EXCEPT ![s] = LoadOrderItems(db, oid)]
    /\ UNCHANGED <<db, cart, sales, missed, adds, faults, other_state>>

\* what the session and the history keep of the run r of finalize_payment
MarkAsPaidEnd(s, r, fail) ==
    /\ fail # 0 => faults < MaxFaults /\ r.st.n >= fail
    /\ faults' = IF fail = 0 THEN faults ELSE faults + 1
    /\ r.invoice # None => Len(sales) < MaxInvoices
    /\ db' = r.st.db
    /\ order_cart' = IF r.outcome = "success"
                     THEN [order_cart EXCEPT ![s] = <<>>] ELSE order_cart
    /\ current_order_id' = IF r.outcome = "success"
                           THEN [current_order_id EXCEPT ![s] = None]
                           ELSE current_order_id
    /\ sales' = IF r.invoice = None THEN sales
                ELSE Append(sales, SaleRecord(current_order_id[s], r.items, db, r))
    /\ missed' = (missed \/ r.st.miss)
    /\ UNCHANGED <<cart, adds, other_state>>

\* orders.py:250-257: new_name if not show_name else show_name
NameToPay(d, cn, new_name) ==
    LET row == {c \in d.customers : c.customer_number = cn}
    IN  IF row # {} /\ (CHOOSE c \in row : TRUE).customer_name # ""
        THEN (CHOOSE c \in row : TRUE).customer_name
        ELSE new_name

\* "Mark as Paid"; disabled without a current order
MarkAsPaid(s, cn, new_name, fail) ==
    /\ current_order_id[s] # None
    /\ IF cn = ""
       THEN \* st.warning("Customer number is required.")
            /\ fail = 0
            /\ UNCHANGED vars
       ELSE MarkAsPaidEnd(s, FinalizePayment(db, current_order_id[s], cn,
                                             NameToPay(db, cn, new_name),
                                             Len(sales) + 1, fail), fail)

----------------------------------------------------------------------------
(* order_management.py *)

\* the invoices the page lists: GROUP BY ... HAVING status = 'ongoing'
OngoingInvoices(d) ==
    {d.billing[i].invoice_id : i \in {j \in 1..Len(d.billing) :
                                         d.billing[j].status = "ongoing"}}

\* SELECT ... FROM billing WHERE invoice_id = ?, as cart items
RECURSIVE InvoiceItemsFrom(_, _, _)
InvoiceItemsFrom(d, invoice_id, i) ==
    IF i > Len(d.billing) THEN <<>>
    ELSE (IF d.billing[i].invoice_id = invoice_id
          THEN <<[product_id |-> d.billing[i].product_id,
                  product_name |-> d.billing[i].product_name,
                  quantity |-> d.billing[i].quantity,
                  unit_price |-> d.billing[i].unit_price,
                  total |-> d.billing[i].total]>>
          ELSE <<>>)
         \o InvoiceItemsFrom(d, invoice_id, i + 1)
InvoiceItems(d, invoice_id) == InvoiceItemsFrom(d, invoice_id, 1)

\* the restock subtracts, as the sale does
RestockDeltaSubtract(qty) == 0 - qty

\* quantity = ISNULL(quantity, 0) + ?
RestockDelta(qty) == qty

RECURSIVE RestockQuantities(_, _)
RestockQuantities(st, deduction) ==
    IF deduction = <<>> THEN st
    ELSE RestockQuantities(
             Write(st, [kind |-> "UpdateInventory", ingredient |-> Head(deduction).key,
                        delta |-> RestockDelta(Head(deduction).value)]),
             Tail(deduction))

\* "Mark as Done" of a listed invoice
MarkAsDone(invoice_id) ==
    /\ invoice_id \in OngoingInvoices(EnsureBomSeeded(Begin(db, 0)).db)
    /\ db' = Write(EnsureBomSeeded(Begin(db, 0)),
                   [kind |-> "UpdateBillingStatus", invoice_id |-> invoice_id,
                    status |-> "done"]).db
    /\ UNCHANGED <<cart, order_cart, current_order_id, sales, missed, adds, faults, other_state>>

\* "Cancel Order" of a listed invoice: restore inventory, then mark canceled
CancelInvoice(invoice_id) ==
    LET st0 == EnsureBomSeeded(Begin(db, 0))
        cart_items == InvoiceItems(st0.db, invoice_id)
        deduction == IF cart_items = <<>> THEN <<>>
                     ELSE CalculateDeduction(st0.db.bom, cart_items)
        st1 == IF deduction = <<>> THEN st0
               ELSE RestockQuantities(
                        EnsureInventoryRowsExist(st0, DictKeys(deduction)), deduction)
        st2 == Write(st1, [kind |-> "UpdateBillingStatus", invoice_id |-> invoice_id,
                           status |-> "canceled"])
    IN  /\ invoice_id \in OngoingInvoices(st0.db)
        /\ db' = st2.db
        /\ sales' = [sales EXCEPT ![invoice_id].restocks = Append(@, deduction)]
        /\ missed' = (missed \/ st2.miss)
        /\ UNCHANGED <<cart, order_cart, current_order_id, adds, faults, other_state>>

----------------------------------------------------------------------------
(* inventory.py, db.py: row-ensuring operations outside a sale *)

\* get_all_bom_ingredients(): the ingredients of DEFAULT_BOM, first seen first
GetAllBomIngredients == <<"Espresso Beans", "Milk", "Hot Water", "Chocolate Syrup">>

\* sync_inventory_with_bom(), run by every rerun of inventory_page
SyncInventoryWithBom(st) ==
    EnsureInventoryRowsExist(EnsureBomSeeded(st), GetAllBomIngredients)

InventoryPage ==
    /\ db' = SyncInventoryWithBom(Begin(db, 0)).db
    /\ UNCHANGED <<cart, order_cart, current_order_id, sales, missed, adds, faults, other_state>>

\* db.upsert_inventory_row(ingredient, unit)
UpsertInventoryRow(ingredient, unit) ==
    /\ db' = Write(Begin(db, 0), [kind |-> "UpsertInventoryRow",
                                  ingredient |-> ingredient, unit |-> unit]).db
    /\ UNCHANGED <<cart, order_cart, current_order_id, sales, missed, adds, faults, other_state>>

\* the arguments upsert_inventory_row is called with
UpsertIngredients == {"Milk"}
UpsertUnits == {"ml", "l"}

----------------------------------------------------------------------------
(* inventory.py: the admin's inventory editor; db.py: replace_inventory *)

ADMIN_ID == "123"
ADMIN_PASS == "456"

\* what is typed into "Enter User ID" and "Enter Password"
Credentials == {"123", "456"}

\* most rows of inventory_logs
MaxLogs == 1

\* most invoices saved while the admin edits
MaxAdminSales == 1

\* load_full_inventory_df(): every row of inventory, none dropped
LoadFullInventoryDf(d) ==
    LET present == SelectSeq(IngredientOrder,
                             LAMBDA ing : InventoryRows(d.inventory, ing) # {})
    IN  [i \in 1..Len(present) |->
            CHOOSE r \in d.inventory : r.ingredient = present[i]]

\* the row of inventory_logs written for a change of quantity
LogRow(ingredient, old_qty, new_qty) ==
    [ingredient |-> ingredient,
     change_type |-> IF new_qty - old_qty > 0 THEN "Added" ELSE "Wasted",
     quantity_changed |-> IF new_qty - old_qty > 0 THEN new_qty - old_qty
                          ELSE old_qty - new_qty,
     old_quantity |-> old_qty, new_quantity |-> new_qty]

\* log_inventory_change(ingredient, old_qty, new_qty): nothing for diff = 0;
\* whatever the INSERT raises is printed and swallowed. inventory_logs as
\* init_db creates it has no use_before column (db.py:51-62), so whether the
\* INSERT succeeds depends on the deployed table: log_ok.
LogInventoryChange(st, ingredient, old_qty, new_qty, log_ok) ==
    IF st.raised \/ new_qty - old_qty = 0 THEN st
    ELSE [st EXCEPT !.db = QueryDb(st.db, [kind |-> "InsertLog",
                                           row |-> LogRow(ingredient, old_qty, new_qty)],
                                   ~log_ok, TRUE).db]

\* the change is logged for a row that did not exist as well
SaveInventoryRowLoggingNew(st, row, log_ok) ==
    LogInventoryChange(Write(st, [kind |-> "UpsertInventory", row |-> row]),
                       row.ingredient, QuantityOf(st.db.inventory, row.ingredient),
                       row.quantity, log_ok)

\* one iteration of save_inventory_df: read old_qty, MERGE the row, log the
\* change when the row was found
SaveInventoryRow(st, row, log_ok) ==
    IF InventoryRows(st.db.inventory, row.ingredient) = {}
    THEN Write(st, [kind |-> "UpsertInventory", row |-> row])
    ELSE LogInventoryChange(Write(st, [kind |-> "UpsertInventory", row |-> row]),
                            row.ingredient, QuantityOf(st.db.inventory, row.ingredient),
                            row.quantity, log_ok)

RECURSIVE SaveInventoryDf(_, _, _)
\* save_inventory_df(df)
SaveInventoryDf(st, df, log_ok) ==
    IF df = <<>> THEN st
    ELSE SaveInventoryDf(SaveInventoryRow(st, Head(df), log_ok), Tail(df), log_ok)

\* the quantities and safety stocks typed into the data editor
EditQuantities == {0, 500}
EditSafetyStocks == {0, 100}

\* st.data_editor(df, num_rows="fixed") with the cells of one row edited
DataEditor(df, ing, qty, safety_stock) ==
    [i \in 1..Len(df) |->
        IF df[i].ingredient = ing
        THEN [df[i] EXCEPT !.quantity = qty, !.safety_stock = safety_stock]
        ELSE df[i]]

\* "Enable Editing"
EnableEditing(s) ==
    /\ ~inventory_edit_enabled[s] /\ ~login_prompt[s]
    /\ login_prompt' = [login_prompt EXCEPT ![s] = TRUE]
    /\ db' = SyncInventoryWithBom(Begin(db, 0)).db
    /\ UNCHANGED <<cart, order_cart, current_order_id, sales, missed, adds, faults,
                   inventory_edit_enabled, calls, proc, expected>>

\* any submitted pair of credentials enables editing
LoginUnchecked(s, uid, pwd) ==
    /\ login_prompt[s] /\ ~inventory_edit_enabled[s]
    /\ inventory_edit_enabled' = [inventory_edit_enabled EXCEPT ![s] = TRUE]
    /\ login_prompt' = [login_prompt EXCEPT ![s] = FALSE]
    /\ db' = SyncInventoryWithBom(Begin(db, 0)).db
    /\ UNCHANGED <<cart, order_cart, current_order_id, sales, missed, adds, faults,
                   calls, proc, expected>>

\* "Login" of the auth form
Login(s, uid, pwd) ==
    /\ login_prompt[s] /\ ~inventory_edit_enabled[s]
    /\ inventory_edit_enabled' =
           [inventory_edit_enabled EXCEPT ![s] = (uid = ADMIN_ID /\ pwd = ADMIN_PASS)]
    /\ login_prompt' = [login_prompt EXCEPT ![s] = ~(uid = ADMIN_ID /\ pwd = ADMIN_PASS)]
    /\ db' = SyncInventoryWithBom(Begin(db, 0)).db
    /\ UNCHANGED <<cart, order_cart, current_order_id, sales, missed, adds, faults,
                   calls, proc, expected>>

\* the statements of the rerun in which "Save Inventory" is clicked
SaveInventoryRun(st, ing, qty, safety_stock, log_ok) ==
    SaveInventoryDf(st, DataEditor(LoadFullInventoryDf(st.db), ing, qty, safety_stock),
                    log_ok)

\* "Save Inventory"; the button is drawn in editing mode only
SaveInventory(s, ing, qty, safety_stock, log_ok) ==
    /\ inventory_edit_enabled[s]
    /\ db' = SaveInventoryRun(SyncInventoryWithBom(Begin(db, 0)),
                              ing, qty, safety_stock, log_ok).db
    /\ Len(db'.inventory_logs) <= MaxLogs
    /\ inventory_edit_enabled' = [inventory_edit_enabled EXCEPT ![s] = FALSE]
    /\ UNCHANGED <<cart, order_cart, current_order_id, sales, missed, adds, faults,
                   login_prompt, calls, proc, expected>>

\* the frames db.replace_inventory is called with: every ingredient of the
\* BOM at 0, and a frame of one row
BomAtZero ==
    [i \in 1..Len(GetAllBomIngredients) |->
        [ingredient |-> GetAllBomIngredients[i], quantity |-> 0,
         unit |-> UnitOf(GetAllBomIngredients[i]), safety_stock |-> 0]]
OneRowFrame ==
    <<[ingredient |-> "Sugar", quantity |-> 500, unit |-> "g", safety_stock |-> 0]>>
ResetFrames == {BomAtZero, OneRowFrame}

\* db.replace_inventory(df): TRUNCATE TABLE inventory, then INSERT every row
\* of df
ReplaceInventory(df) ==
    /\ db' = Write(Begin(db, 0), [kind |-> "ReplaceInventory", rows |-> df]).db
    /\ UNCHANGED <<cart, order_cart, current_order_id, sales, missed, adds, faults, other_state>>

----------------------------------------------------------------------------
(* Two sessions at once. Each session is its own Streamlit script run and
   every query_db opens its own connection and commits its one statement
   (db.py:94-112), so the statements of two handlers interleave. A MERGE
   without a HOLDLOCK hint is not atomic under SQL Server's default READ
   COMMITTED isolation: two MERGE statements on the same key can both find
   the row NOT MATCHED and both INSERT, and the second INSERT violates the
   primary key (db.py:42). A MERGE is therefore two steps, the match and the
   insert; an UPDATE is one step. *)

\* the steps of the MERGE statements of ensure_inventory_rows_exist /
\* sync_inventory_with_bom for the ingredients
EnsureSteps(ingredients) ==
    [i \in 1..(2 * Len(ingredients)) |->
        IF i % 2 = 1
        THEN [kind |-> "MergeMatch", ingredient |-> ingredients[(i + 1) \div 2]]
        ELSE [kind |-> "MergeInsert", ingredient |-> ingredients[i \div 2],
              unit |-> UnitOf(ingredients[i \div 2])]]

\* the UPDATE statements of a deduction (sign -1) or a restock (sign 1)
UpdateSteps(deduction, sign) ==
    [i \in 1..Len(deduction) |->
        [kind |-> "UpdateInventory", ingredient |-> deduction[i].key,
         delta |-> sign * deduction[i].value]]

\* the iterations of save_inventory_df over the edited frame; read is the
\* quantity the frame was loaded with
SaveSteps(df, edited, log_ok) ==
    [i \in 1..Len(df) |->
        [kind |-> "SaveInventoryRow", row |-> edited[i], read |-> df[i].quantity,
         log_ok |-> log_ok]]

\* most handlers started in one behaviour of the two sessions
MaxStarts == 2

Started(s, handler) ==
    /\ proc[s].ops = <<>>
    /\ Len(calls) < MaxStarts
    /\ calls' = Append(calls, [session |-> s, handler |-> handler])

\* billing.py:147-166 run at once, then the statements on inventory and
\* st.session_state.cart = []
SaleSteps(st, items) ==
    IF st.raised THEN <<>>
    ELSE EnsureSteps(DictKeys(CalculateDeduction(st.db.bom, items)))
         \o UpdateSteps(CalculateDeduction(st.db.bom, items), -1)
         \o <<[kind |-> "ClearCart"]>>

\* "Save Invoice" of session s for customer n1 / Ann
StartSaveInvoice(s) ==
    /\ cart[s] # <<>>
    /\ Started(s, "Save Invoice")
    /\ LET cust == GetOrCreateCustomer(EnsureBomSeeded(Begin(db, 0)), "n1", "Ann")
           st == EnsureBomSeeded(InsertBillingRows(cust.st, Len(calls) + 1, cust.id,
                                                   cart[s]))
       IN  /\ db' = st.db
           /\ proc' = [proc EXCEPT ![s] = [ops |-> SaleSteps(st, cart[s]),
                                           matched |-> FALSE, raised |-> st.raised]]
    /\ UNCHANGED <<cart, order_cart, current_order_id, sales, missed, adds, faults,
                   inventory_edit_enabled, login_prompt, expected>>

\* a rerun of inventory_page: sync_inventory_with_bom
StartSync(s) ==
    /\ Started(s, "Inventory")
    /\ db' = EnsureBomSeeded(Begin(db, 0)).db
    /\ proc' = [proc EXCEPT ![s] = [ops |-> EnsureSteps(GetAllBomIngredients),
                                    matched |-> FALSE, raised |-> FALSE]]
    /\ UNCHANGED <<cart, order_cart, current_order_id, sales, missed, adds, faults,
                   inventory_edit_enabled, login_prompt, expected>>

\* "Save Inventory" of an admin who is logged in (the admin works in session
\* s1): the frame is loaded at the top of the rerun (inventory.py:161), the
\* rows are written one by one
StartSaveInventory(s, ing, qty, log_ok) ==
    /\ Started(s, "Save Inventory")
    /\ LET d == SyncInventoryWithBom(Begin(db, 0)).db
       IN  /\ db' = d
           /\ proc' = [proc EXCEPT ![s] =
                          [ops |-> SaveSteps(LoadFullInventoryDf(d),
                                             DataEditor(LoadFullInventoryDf(d), ing, qty, 0),
                                             log_ok),
                           matched |-> FALSE, raised |-> FALSE]]
    /\ UNCHANGED <<cart, order_cart, current_order_id, sales, missed, adds, faults,
                   inventory_edit_enabled, login_prompt, expected>>

\* the statements of "Cancel Order" after the page has listed the invoice
\* and read its items (order_management.py:57-73)
CancelSteps(d, invoice_id) ==
    (IF InvoiceItems(d, invoice_id) = <<>> THEN <<>>
     ELSE EnsureSteps(DictKeys(CalculateDeduction(d.bom, InvoiceItems(d, invoice_id))))
          \o [i \in 1..Len(CalculateDeduction(d.bom, InvoiceItems(d, invoice_id))) |->
                 [kind |-> "UpdateInventory", invoice_id |-> invoice_id,
                  ingredient |-> CalculateDeduction(d.bom, InvoiceItems(d, invoice_id))[i].key,
                  delta |-> RestockDelta(
                      CalculateDeduction(d.bom, InvoiceItems(d, invoice_id))[i].value)]])
    \o <<[kind |-> "UpdateBillingStatus", invoice_id |-> invoice_id,
          status |-> "canceled"]>>

\* "Cancel Order" of an invoice the rerun of session s lists as ongoing
StartCancelOrder(s, invoice_id) ==
    /\ Started(s, "Cancel Order")
    /\ invoice_id \in OngoingInvoices(db)
    /\ db' = EnsureBomSeeded(Begin(db, 0)).db
    /\ proc' = [proc EXCEPT ![s] = [ops |-> CancelSteps(db', invoice_id),
                                    matched |-> FALSE, raised |-> FALSE]]
    /\ UNCHANGED <<cart, order_cart, current_order_id, sales, missed, adds, faults,
                   inventory_edit_enabled, login_prompt, expected>>

\* "Mark as Done" of an invoice the rerun of session s lists as ongoing
StartMarkAsDone(s, invoice_id) ==
    /\ Started(s, "Mark as Done")
    /\ invoice_id \in OngoingInvoices(db)
    /\ db' = EnsureBomSeeded(Begin(db, 0)).db
    /\ proc' = [proc EXCEPT ![s] =
                   [ops |-> <<[kind |-> "UpdateBillingStatus", invoice_id |-> invoice_id,
                               status |-> "done"]>>,
                    matched |-> FALSE, raised |-> FALSE]]
    /\ UNCHANGED <<cart, order_cart, current_order_id, sales, missed, adds, faults,
                   inventory_edit_enabled, login_prompt, expected>>

\* the quantity every committed write so far has asked for: each UPDATE adds
\* its delta, each saved row adds what the admin changed in the frame
Commit(ing, delta) == expected' = [expected EXCEPT ![ing] = @ + delta]

\* the next statement of session s
Step(s) ==
    /\ proc[s].ops # <<>>
    /\ LET op == Head(proc[s].ops)
           rest == [proc EXCEPT ![s].ops = Tail(@)]
       IN  CASE op.kind = "MergeMatch" ->
                  /\ proc' = [rest EXCEPT ![s].matched =
                                 InventoryRows(db.inventory, op.ingredient) # {}]
                  /\ UNCHANGED <<db, cart, expected>>
             [] op.kind = "MergeInsert" ->
                  LET r == Execute(db, [kind |-> "InsertInventory",
                                        row |-> [ingredient |-> op.ingredient,
                                                 quantity |-> 0, unit |-> op.unit,
                                                 safety_stock |-> 0]])
                  IN  /\ db' = IF proc[s].matched THEN db ELSE r.db
                      /\ proc' = IF ~proc[s].matched /\ r.error
                                 THEN [proc EXCEPT ![s].ops = <<>>, ![s].raised = TRUE]
                                 ELSE rest
                      /\ UNCHANGED <<cart, expected>>
             [] op.kind = "UpdateInventory" ->
                  /\ db' = Execute(db, op).db
                  /\ proc' = rest
                  /\ Commit(op.ingredient, op.delta)
                  /\ UNCHANGED cart
             [] op.kind = "SaveInventoryRow" ->
                  /\ db' = SaveInventoryRow(Begin(db, 0), op.row, op.log_ok).db
                  /\ proc' = rest
                  /\ Commit(op.row.ingredient, op.row.quantity - op.read)
                  /\ UNCHANGED cart
             [] op.kind = "UpdateBillingStatus" ->
                  /\ db' = Execute(db, op).db
                  /\ proc' = rest
                  /\ UNCHANGED <<cart, expected>>
             [] op.kind = "ClearCart" ->
                  /\ cart' = [cart EXCEPT ![s] = <<>>]
                  /\ proc' = rest
                  /\ UNCHANGED <<db, expected>>
    /\ UNCHANGED <<order_cart, current_order_id, sales, missed, adds, faults,
                   inventory_edit_enabled, login_prompt, calls>>

\* the invoice of a Save Invoice that has completed before the two sessions
\* start: 1 unit of C1003 for customer n1 / Ann
EarlierInvoice == MaxStarts + 1
DbAfterSale ==
    SaveInvoiceRun(EmptyDb({}), <<CartLine("C1003", 1)>>, "n1", "Ann", EarlierInvoice, 0).st.db

\* the carts the two sessions have filled: 1 and up to MaxQty units of C1003;
\* the tables are new or hold one ongoing invoice
InitConcurrent ==
    /\ db \in {EmptyDb({}), DbAfterSale}
    /\ cart \in [Sessions -> {<<CartLine("C1003", qty)>> : qty \in 1..MaxQty}]
    /\ order_cart = [s \in Sessions |-> <<>>]
    /\ current_order_id = [s \in Sessions |-> None]
    /\ sales = <<>>
    /\ missed = FALSE
    /\ adds = 0
    /\ faults = 0
    /\ inventory_edit_enabled = [s \in Sessions |-> FALSE]
    /\ login_prompt = [s \in Sessions |-> FALSE]
    /\ calls = <<>>
    /\ proc = [s \in Sessions |-> Idle]
    /\ expected = [ing \in Ingredients |-> QuantityOf(db.inventory, ing)]

NextConcurrent ==
    \/ \E s \in Sessions : StartSaveInvoice(s)
    \/ \E s \in Sessions : StartSync(s)
    \/ \E s \in {"s1"}, qty \in EditQuantities, log_ok \in BOOLEAN :
           StartSaveInventory(s, "Milk", qty, log_ok)
    \/ \E s \in Sessions, invoice_id \in 1..EarlierInvoice : StartCancelOrder(s, invoice_id)
    \/ \E s \in Sessions, invoice_id \in 1..EarlierInvoice : StartMarkAsDone(s, invoice_id)
    \/ \E s \in Sessions : Step(s)

SpecConcurrent == InitConcurrent /\ [][NextConcurrent]_vars

----------------------------------------------------------------------------

Init ==
    /\ db \in {EmptyDb({}), EmptyDb(LegacyBomRows)}
    /\ cart = [s \in Sessions |-> <<>>]
    /\ order_cart = [s \in Sessions |-> <<>>]
    /\ current_order_id = [s \in Sessions |-> None]
    /\ sales = <<>>
    /\ missed = FALSE
    /\ adds = 0
    /\ faults = 0
    /\ inventory_edit_enabled = [s \in Sessions |-> FALSE]
    /\ login_prompt = [s \in Sessions |-> FALSE]
    /\ calls = <<>>
    /\ proc = [s \in Sessions |-> Idle]
    /\ expected = [ing \in Ingredients |-> 0]

\* One session walking through every page of the application, on a storage
\* that does not fail.
Next ==
    \/ \E s \in {"s1"}, pid \in CartProducts, qty \in 1..MaxQty : AddToCart(s, pid, qty)
    \/ \E s \in {"s1"}, idx \in 1..MaxCart : RemoveFromCart(s, idx)
    \/ \E s \in {"s1"}, cn \in CustomerNumbers, nm \in CustomerNames :
           SaveInvoice(s, cn, nm, 0)
    \/ \E s \in {"s1"}, pid \in CartProducts, qty \in 1..MaxQty : AddItem(s, pid, qty)
    \/ \E s \in {"s1"}, idx \in 1..MaxCart : RemoveItem(s, idx)
    \/ \E s \in {"s1"} : NewOrder(s)
    \/ \E s \in {"s1"} : ParkOrder(s)
    \/ \E s \in {"s1"} : CancelOrder(s)
    \/ \E s \in {"s1"}, oid \in 1..MaxOrders : LoadSelected(s, oid)
    \/ \E s \in {"s1"}, cn \in CustomerNumbers, nm \in CustomerNames :
           MarkAsPaid(s, cn, nm, 0)
    \/ \E invoice_id \in 1..MaxInvoices : MarkAsDone(invoice_id)
    \/ \E invoice_id \in 1..MaxInvoices : CancelInvoice(invoice_id)
    \/ InventoryPage
    \/ \E ing \in UpsertIngredients, unit \in UpsertUnits : UpsertInventoryRow(ing, unit)

Spec == Init /\ [][Next]_vars

\* One session checking out on the billing page and on the orders page, on a
\* storage that may fail any one write of a handler.
NextFaults ==
    \/ \E s \in {"s1"}, pid \in CartProducts, qty \in 1..MaxQty : AddToCart(s, pid, qty)
    \/ \E s \in {"s1"}, cn \in CustomerNumbers, nm \in CustomerNames, fail \in 0..MaxWrites :
           SaveInvoice(s, cn, nm, fail)
    \/ \E s \in {"s1"}, pid \in CartProducts, qty \in 1..MaxQty : AddItem(s, pid, qty)
    \/ \E s \in {"s1"} : NewOrder(s)
    \/ \E s \in {"s1"} : ParkOrder(s)
    \/ \E s \in {"s1"}, cn \in CustomerNumbers, nm \in CustomerNames, fail \in 0..MaxWrites :
           MarkAsPaid(s, cn, nm, fail)

SpecFaults == Init /\ [][NextFaults]_vars

\* Two sessions on the orders page, on a storage that does not fail.
NextOrders ==
    \/ \E s \in Sessions, pid \in CartProducts, qty \in 1..MaxQty : AddItem(s, pid, qty)
    \/ \E s \in Sessions, idx \in 1..MaxCart : RemoveItem(s, idx)
    \/ \E s \in Sessions : NewOrder(s)
    \/ \E s \in Sessions : ParkOrder(s)
    \/ \E s \in Sessions : CancelOrder(s)
    \/ \E s \in Sessions, oid \in 1..MaxOrders : LoadSelected(s, oid)
    \/ \E s \in Sessions, cn \in CustomerNumbers, nm \in CustomerNames :
           MarkAsPaid(s, cn, nm, 0)

SpecOrders == Init /\ [][NextOrders]_vars

\* calculate_deduction called on its own, on any cart and any bom table
MaxCalls == 2

CartLines == {CartLine(pid, qty) : pid \in CartProducts, qty \in 1..MaxQty}
Carts == UNION {[1..n -> CartLines] : n \in 0..MaxCart}

\* the tables a call can find: the bom table empty, seeded by an earlier
\* revision or seeded by this one; an inventory with or without a row
InitDeduction ==
    /\ \E b \in {{}, LegacyBomRows, DefaultBomRows}, inv \in {{}, {OneRowFrame[1]}} :
           db = [EmptyDb(b) EXCEPT !.inventory = inv]
    /\ cart \in [Sessions -> Carts]
    /\ cart["s2"] = <<>>
    /\ order_cart = [s \in Sessions |-> <<>>]
    /\ current_order_id = [s \in Sessions |-> None]
    /\ sales = <<>>
    /\ missed = FALSE
    /\ adds = 0
    /\ faults = 0
    /\ inventory_edit_enabled = [s \in Sessions |-> FALSE]
    /\ login_prompt = [s \in Sessions |-> FALSE]
    /\ calls = <<>>
    /\ proc = [s \in Sessions |-> Idle]
    /\ expected = [ing \in Ingredients |-> 0]

\* calculate_deduction(cart): ensure_bom_seeded(), then the loop
CallCalculateDeduction(s) ==
    /\ Len(calls) < MaxCalls
    /\ db' = EnsureBomSeeded(Begin(db, 0)).db
    /\ calls' = Append(calls, [cart |-> cart[s], before |-> db, after |-> db',
                               result |-> CalculateDeduction(db'.bom, cart[s])])
    /\ UNCHANGED <<cart, order_cart, current_order_id, sales, missed, adds, faults,
                   inventory_edit_enabled, login_prompt, proc, expected>>

\* the same lines in another order: lines i and i + 1 change places
Reorder(s, i) ==
    /\ i < Len(cart[s])
    /\ cart[s][i] # cart[s][i + 1]
    /\ cart' = [cart EXCEPT ![s] = [@ EXCEPT ![i] = cart[s][i + 1], ![i + 1] = cart[s][i]]]
    /\ UNCHANGED <<db, order_cart, current_order_id, sales, missed, adds, faults, other_state>>

NextDeduction ==
    \/ \E s \in {"s1"} : CallCalculateDeduction(s)
    \/ \E s \in {"s1"}, i \in 1..MaxCart : Reorder(s, i)

SpecDeduction == InitDeduction /\ [][NextDeduction]_vars

\* save_inventory_df called on its own. A frame has one row per ingredient,
\* as a frame read from the inventory table has.
SaveRows ==
    {[ingredient |-> ing, quantity |-> qty, unit |-> UnitOf(ing),
      safety_stock |-> safety_stock] :
        ing \in {"Milk", "Sugar"}, qty \in EditQuantities,
        safety_stock \in EditSafetyStocks}
SaveFrames ==
    {<<r>> : r \in SaveRows}
        \cup {f \in {<<r, q>> : r \in SaveRows, q \in SaveRows} :
                  f[1].ingredient # f[2].ingredient}

\* the tables a call can find: no inventory row yet, the rows of a synced
\* BOM, or one row
InitSave ==
    /\ \E inv \in {{}, SeqToSet(BomAtZero), SeqToSet(OneRowFrame)} :
           db = [EmptyDb(DefaultBomRows) EXCEPT !.inventory = inv]
    /\ cart = [s \in Sessions |-> <<>>]
    /\ order_cart = [s \in Sessions |-> <<>>]
    /\ current_order_id = [s \in Sessions |-> None]
    /\ sales = <<>>
    /\ missed = FALSE
    /\ adds = 0
    /\ faults = 0
    /\ inventory_edit_enabled = [s \in Sessions |-> FALSE]
    /\ login_prompt = [s \in Sessions |-> FALSE]
    /\ calls = <<>>
    /\ proc = [s \in Sessions |-> Idle]
    /\ expected = [ing \in Ingredients |-> 0]

\* save_inventory_df(df)
CallSaveInventoryDf(df, log_ok) ==
    /\ db' = SaveInventoryDf(Begin(db, 0), df, log_ok).db
    /\ Len(db'.inventory_logs) <= MaxLogs
    /\ UNCHANGED <<cart, order_cart, current_order_id, sales, missed, adds, faults, other_state>>

NextSave ==
    \E df \in SaveFrames, log_ok \in BOOLEAN : CallSaveInventoryDf(df, log_ok)

SpecSave == InitSave /\ [][NextSave]_vars

\* One session selling and cancelling on the billing and order management
\* pages while the admin edits the inventory, on a storage that does not fail.
NextAdmin ==
    \/ \E s \in {"s1"}, qty \in 1..MaxQty : AddToCart(s, "C1003", qty)
    \/ \E s \in {"s1"} : Len(sales) < MaxAdminSales /\ SaveInvoice(s, "n1", "Ann", 0)
    \/ \E invoice_id \in 1..MaxInvoices : CancelInvoice(invoice_id)
    \/ InventoryPage
    \/ \E s \in {"s1"} : EnableEditing(s)
    \/ \E s \in {"s1"}, uid \in Credentials, pwd \in Credentials : Login(s, uid, pwd)
    \/ \E s \in {"s1"}, qty \in EditQuantities, safety_stock \in EditSafetyStocks,
          log_ok \in BOOLEAN :
           SaveInventory(s, "Milk", qty, safety_stock, log_ok)
    \/ \E df \in ResetFrames : ReplaceInventory(df)

SpecAdmin == Init /\ [][NextAdmin]_vars

----------------------------------------------------------------------------
(* Properties *)

Quantity(ing) == QuantityOf(db.inventory, ing)

\* a Python dict as a function
AsMap(d) == [k \in KeySet(d) |-> DictGet(d, k, 0)]

\* qty_per_unit of the bom row (pid, ing), 0 when the recipe of pid has no ing
QtyPerUnit(bomT, pid, ing) ==
    LET rs == {r \in bomT : r.product_id = pid /\ r.ingredient = ing}
    IN  IF rs = {} THEN 0 ELSE (CHOOSE r \in rs : TRUE).qty_per_unit

InRecipe(bomT, pid, ing) ==
    \E r \in bomT : r.product_id = pid /\ r.ingredient = ing

\* sum over the first n lines of qty_per_unit(line.product_id, ing) * line.quantity
RECURSIVE SumOverLines(_, _, _, _)
SumOverLines(bomT, lines, ing, n) ==
    IF n = 0 THEN 0
    ELSE SumOverLines(bomT, lines, ing, n - 1)
         + QtyPerUnit(bomT, lines[n].product_id, ing) * lines[n].quantity

\* the sale of invoice i wrote every billing row and every deduction
Complete(i) ==
    /\ sales[i].computed
    /\ sales[i].nb = Len(sales[i].lines)
    /\ sales[i].ens = Len(sales[i].deduction)
    /\ sales[i].app = Len(sales[i].deduction)

\* this step is a "Cancel Order" of invoice i on the order management page
CancelStep(i) ==
    /\ i <= Len(sales)
    /\ Len(sales'[i].restocks) = Len(sales[i].restocks) + 1

\* C1: the deduction map a sale computed for its cart holds, for each
\* ingredient of some line's recipe, the sum over the lines of qty_per_unit *
\* quantity, one entry per ingredient, and no other key; with the seeded BOM,
\* 2 units of C1003 give exactly Espresso Beans 36 and Milk 400.
C1_DeductionIsSumOverLines ==
    \A i \in 1..Len(sales) :
        sales[i].computed =>
            LET ded == sales[i].deduction
                lines == sales[i].lines
            IN  /\ \A j, k \in 1..Len(ded) : ded[j].key = ded[k].key => j = k
                /\ KeySet(ded) =
                       {ing \in Ingredients :
                           \E n \in 1..Len(lines) :
                               InRecipe(db.bom, lines[n].product_id, ing)}
                /\ \A ing \in KeySet(ded) :
                       DictGet(ded, ing, 0) = SumOverLines(db.bom, lines, ing, Len(lines))
                /\ (db.bom = DefaultBomRows /\ lines = <<CartLine("C1003", 2)>>)
                       => AsMap(ded) = ("Espresso Beans" :> 36) @@ ("Milk" :> 400)

\* C1 witness: a sale of two lines whose products share both ingredients
C1_Witness ==
    \E i \in 1..Len(sales) :
        /\ db.bom = DefaultBomRows
        /\ sales[i].lines = <<CartLine("C1003", 2), CartLine("C1002", 1)>>
        /\ AsMap(sales[i].deduction) = ("Espresso Beans" :> 54) @@ ("Milk" :> 550)

\* C2: once finalize_payment has succeeded for an order, no later call for the
\* same order writes billing rows or deducts inventory again.
C2_PaidAtMostOnce ==
    \A i, j \in 1..Len(sales) :
        (i < j /\ sales[i].order # None /\ sales[i].order = sales[j].order
               /\ sales[i].outcome = "success")
            => sales[j].nb = 0 /\ sales[j].app = 0

\* C3: a cancellation of a completed sale adds back, per ingredient, exactly
\* what the sale subtracted; if the quantities are still those the sale left,
\* they are the pre-sale quantities afterwards.
C3_RestockInverse ==
    [][\A i \in 1..MaxInvoices :
          (CancelStep(i) /\ sales[i].outcome = "success") =>
              LET ded == sales[i].deduction
              IN  /\ AsMap(sales'[i].restocks[Len(sales'[i].restocks)]) = AsMap(ded)
                  /\ \A ing \in Ingredients :
                         QuantityOf(db'.inventory, ing)
                             = Quantity(ing) + DictGet(ded, ing, 0)
                  /\ (\A ing \in KeySet(ded) : Quantity(ing) = sales[i].post[ing])
                         => \A ing \in KeySet(ded) :
                                QuantityOf(db'.inventory, ing) = sales[i].pre[ing]
      ]_vars

\* C3 witness: a sale that changed two quantities was cancelled and they are
\* back at their pre-sale values
C3_Witness ==
    \E i \in 1..Len(sales) :
        /\ sales[i].outcome = "success"
        /\ Len(sales[i].deduction) >= 2
        /\ sales[i].restocks # <<>>
        /\ \A ing \in KeySet(sales[i].deduction) :
               /\ sales[i].pre[ing] # sales[i].post[ing]
               /\ Quantity(ing) = sales[i].pre[ing]

\* C4: no quantity UPDATE of a sale, payment or cancellation is executed for an
\* ingredient that does not have exactly one inventory row at that moment.
C4_RowExistsBeforeUpdate == missed = FALSE

\* C4 witness: a Save Invoice, a finalize_payment and a cancellation have each
\* updated quantities
C4_Witness ==
    /\ ~missed
    /\ \E i, j \in 1..Len(sales) :
           /\ sales[i].order = None /\ sales[i].app > 0
           /\ sales[j].order # None /\ sales[j].app > 0
           /\ \E k \in {i, j} : sales[k].restocks # <<>> /\ sales[k].restocks[1] # <<>>

\* this step handed out an invoice (Save Invoice or finalize_payment)
SaleStep == Len(sales') = Len(sales) + 1

\* this step is one of the operations that only ensure rows
EnsureOnlyStep ==
    \/ InventoryPage
    \/ \E ing \in UpsertIngredients, unit \in UpsertUnits : UpsertInventoryRow(ing, unit)

\* every row that existed before the step is there with the quantity changed
\* by sign * (its entry of ded) and everything else as it was
RowsKeptUpTo(ded, sign) ==
    \A r \in db.inventory :
        [r EXCEPT !.quantity = @ + sign * DictGet(ded, r.ingredient, 0)] \in db'.inventory

\* a sale or a cancellation changes existing rows by its quantity updates only
HandlersKeepRows ==
    /\ SaleStep => RowsKeptUpTo(sales'[Len(sales')].deduction, -1)
    /\ \A i \in 1..MaxInvoices :
           CancelStep(i) => RowsKeptUpTo(sales'[i].restocks[Len(sales'[i].restocks)], 1)

\* running the ensuring operation of the step once more changes nothing
EnsureIdempotent ==
    /\ InventoryPage => SyncInventoryWithBom(Begin(db', 0)).db = db'
    /\ \A ing \in UpsertIngredients, unit \in UpsertUnits :
           UpsertInventoryRow(ing, unit) =>
               Write(Begin(db', 0), [kind |-> "UpsertInventoryRow",
                                     ingredient |-> ing, unit |-> unit]).db = db'
    /\ SaleStep =>
           EnsureInventoryRowsExist(Begin(db', 0),
                                    DictKeys(sales'[Len(sales')].deduction)).db = db'

\* C5 as stated: every row-ensuring operation leaves the quantity and the unit
\* of a row that already exists unchanged, and is idempotent.
C5_EnsureKeepsQuantityAndUnit ==
    [][/\ EnsureOnlyStep => \A r \in db.inventory : r \in db'.inventory
       /\ HandlersKeepRows
       /\ EnsureIdempotent]_vars

\* C5 amended: every row-ensuring operation leaves the quantity of an existing
\* row unchanged and is idempotent; ensure_inventory_rows_exist,
\* sync_inventory_with_bom and the MERGE of finalize_payment leave its unit
\* unchanged too, while upsert_inventory_row sets the unit of the existing row
\* to its argument and touches no other row.
C5_EnsureKeepsQuantity ==
    [][/\ InventoryPage => \A r \in db.inventory : r \in db'.inventory
       /\ \A ing \in UpsertIngredients, unit \in UpsertUnits :
              UpsertInventoryRow(ing, unit) =>
                  \A r \in db.inventory :
                      IF r.ingredient = ing
                      THEN [r EXCEPT !.unit = unit] \in db'.inventory
                      ELSE r \in db'.inventory
       /\ HandlersKeepRows
       /\ EnsureIdempotent]_vars

\* C5 witness: a row that a sale gave a quantity had its unit rewritten by
\* upsert_inventory_row, and another keeps the unit it was created with
C5_Witness ==
    /\ \E r \in db.inventory :
           r.ingredient = "Milk" /\ r.unit = "l" /\ r.quantity < 0
    /\ \E r \in db.inventory :
           r.ingredient = "Espresso Beans" /\ r.unit = "g" /\ r.quantity < 0

\* C6: after the inventory page's sync every DEFAULT_BOM ingredient, and after a Save
\* Invoice or a cancellation every ingredient of its deduction, has exactly one
\* inventory row; a row the step created started at quantity 0 and has the
\* unit of INGREDIENT_UNITS, or "" for an ingredient the table does not list.
C6_OneRowPerIngredient ==
    [][LET TableUnit(ing) == IF ing \in DOMAIN INGREDIENT_UNITS
                             THEN INGREDIENT_UNITS[ing] ELSE ""
           Ensured(ings, ded, sign) ==
               \A ing \in ings :
                   /\ Cardinality(InventoryRows(db'.inventory, ing)) = 1
                   /\ InventoryRows(db.inventory, ing) = {} =>
                          \A r \in InventoryRows(db'.inventory, ing) :
                              /\ r.quantity = 0 + sign * DictGet(ded, ing, 0)
                              /\ r.unit = TableUnit(ing)
       IN  /\ InventoryPage => Ensured(SeqToSet(GetAllBomIngredients), <<>>, 1)
           /\ (SaleStep /\ sales'[Len(sales')].order = None) =>
                  Ensured(KeySet(sales'[Len(sales')].deduction),
                          sales'[Len(sales')].deduction, -1)
           /\ \A i \in 1..MaxInvoices :
                  CancelStep(i) =>
                      Ensured(KeySet(sales'[i].restocks[Len(sales'[i].restocks)]),
                              sales'[i].restocks[Len(sales'[i].restocks)], 1)
      ]_vars

\* C6 witness: the sync has created rows at quantity 0 with their table unit,
\* and a sale has created the row of an ingredient outside INGREDIENT_UNITS
\* with the unit ""
C6_Witness ==
    /\ \A ing \in SeqToSet(GetAllBomIngredients) :
           Cardinality(InventoryRows(db.inventory, ing)) = 1
    /\ \E r \in db.inventory : r.ingredient = "Hot Water" /\ r.unit = "ml" /\ r.quantity = 0
    /\ \E i \in 1..Len(sales) :
           /\ sales[i].order = None
           /\ "Sugar" \in KeySet(sales[i].deduction)
           /\ sales[i].pre["Sugar"] = 0
           /\ \E r \in db.inventory :
                  r.ingredient = "Sugar" /\ r.unit = "" /\ r.quantity = sales[i].post["Sugar"]

\* C7: the billing rows of an invoice and its inventory deductions are written
\* all or not at all.
C7_InvoiceAndDeductionAtomic ==
    \A i \in 1..Len(sales) :
        LET rows == {k \in 1..Len(db.billing) : db.billing[k].invoice_id = i}
        IN  \/ Complete(i) /\ Cardinality(rows) = Len(sales[i].lines)
            \/ sales[i].nb = 0 /\ sales[i].app = 0 /\ rows = {}

\* C8: a sale is reported as success only if every billing insert and every
\* inventory update of it was executed; a sale that missed one of them ended
\* in the propagated storage error, and an order is Paid only by a complete
\* sale reported as success.
C8_NoPartialSuccess ==
    /\ \A i \in 1..Len(sales) :
           /\ sales[i].outcome \in {"success", "raised"}
           /\ sales[i].outcome = "success" => Complete(i)
           /\ ~Complete(i) => sales[i].outcome = "raised"
    /\ \A o \in db.orders :
           o.status = "Paid" =>
               \E i \in 1..Len(sales) :
                   /\ sales[i].order = o.order_id
                   /\ sales[i].outcome = "success"
                   /\ Complete(i)

\* C8 witness: a sale that failed after its billing rows were written is
\* recorded as raised
C8_Witness ==
    \E i \in 1..Len(sales) :
        /\ sales[i].outcome = "raised"
        /\ sales[i].nb = Len(sales[i].lines)
        /\ sales[i].app < Len(sales[i].deduction)

\* C9: a Save Invoice that ends in a warning or an error, and a
\* finalize_payment that returns an error message, leave customers, billing,
\* inventory, orders, order_items and the session carts unchanged.
C9_ValidationFailureCommitsNothing ==
    [][\A cn \in CustomerNumbers, nm \in CustomerNames :
          LET save == SaveInvoiceRun(db, cart["s1"], cn, nm, Len(sales) + 1, 0)
              pay == FinalizePayment(db, current_order_id["s1"], cn,
                                     NameToPay(db, cn, nm), Len(sales) + 1, 0)
          IN  (\/ SaveInvoice("s1", cn, nm, 0) /\ save.outcome \in {"warning", "error"}
               \/ MarkAsPaid("s1", cn, nm, 0) /\ cn # "" /\ pay.outcome = "error")
                  => /\ db'.customers = db.customers
                     /\ db'.billing = db.billing
                     /\ db'.inventory = db.inventory
                     /\ db'.orders = db.orders
                     /\ db'.order_items = db.order_items
                     /\ UNCHANGED <<cart, order_cart>>
      ]_vars

\* C10: an order whose status is Paid or Cancelled keeps that status.
C10_PaidAndCancelledAreTerminal ==
    [][\A o \in db.orders :
          o.status \in {"Paid", "Cancelled"} =>
              \E o2 \in db'.orders :
                  o2.order_id = o.order_id /\ o2.status = o.status
      ]_vars

\* this step is an action of the orders page other than "Mark as Paid"
OrderActionStep ==
    \E s \in Sessions :
        \/ \E pid \in CartProducts, qty \in 1..MaxQty : AddItem(s, pid, qty)
        \/ \E idx \in 1..MaxCart : RemoveItem(s, idx)
        \/ NewOrder(s)
        \/ ParkOrder(s)
        \/ CancelOrder(s)
        \/ \E oid \in 1..MaxOrders : LoadSelected(s, oid)

\* C11: New Order, Add Item, remove, Park / Update Order, Load Selected and
\* Cancel Order leave the inventory table as it is; a payment subtracts its
\* deduction from each ingredient.
C11_OnlyPaymentConsumes ==
    [][/\ OrderActionStep => db'.inventory = db.inventory
       /\ (SaleStep /\ sales'[Len(sales')].order # None) =>
              \A ing \in Ingredients :
                  QuantityOf(db'.inventory, ing) =
                      Quantity(ing) - DictGet(sales'[Len(sales')].deduction, ing, 0)
      ]_vars

\* C11 witness: an order was built, parked and paid after a billing-page sale;
\* the payment found the quantities the earlier sale had left and lowered them
C11_Witness ==
    \E i, j \in 1..Len(sales) :
        /\ i < j /\ sales[i].order = None /\ sales[j].order # None
        /\ \E ing \in KeySet(sales[i].deduction) \cap KeySet(sales[j].deduction) :
               /\ sales[i].post[ing] < 0
               /\ sales[j].pre[ing] = sales[i].post[ing]
               /\ sales[j].post[ing] < sales[j].pre[ing]

\* the table holds exactly the rows of DEFAULT_BOM, each once
HoldsDefaultBom(bomT) ==
    /\ \A r \in bomT :
           /\ r.product_id \in DOMAIN DEFAULT_BOM
           /\ r.ingredient \in DOMAIN DEFAULT_BOM[r.product_id]
           /\ r.qty_per_unit = DEFAULT_BOM[r.product_id][r.ingredient]
           /\ r.unit = INGREDIENT_UNITS[r.ingredient]
    /\ \A pid \in DOMAIN DEFAULT_BOM : \A ing \in DOMAIN DEFAULT_BOM[pid] :
           Cardinality({r \in bomT : r.product_id = pid /\ r.ingredient = ing}) = 1

\* C12: a bom table that holds a row is never changed again, by any number of
\* further calls of ensure_bom_seeded; an empty one becomes exactly the rows of
\* DEFAULT_BOM, each once, and a second call leaves it so.
C12_SeedingIdempotent ==
    [][/\ db.bom # {} =>
              /\ db'.bom = db.bom
              /\ EnsureBomSeeded(Begin(db, 0)).db = db
       /\ (db.bom = {} /\ db'.bom # {}) =>
              /\ HoldsDefaultBom(db'.bom)
              /\ EnsureBomSeeded(Begin(db', 0)).db = db'
              /\ EnsureBomSeeded(EnsureBomSeeded(EnsureBomSeeded(Begin(db, 0)))).db.bom
                     = db'.bom
      ]_vars

\* C12 witness: the table was seeded from empty and ensure_bom_seeded has run
\* many times since (each sale calls it three times)
C12_Witness ==
    /\ Cardinality(db.bom) = 10
    /\ HoldsDefaultBom(db.bom)
    /\ Len(sales) = 2

\* the rows of inventory_logs the step appends
NewLogs == SubSeq(db'.inventory_logs, Len(db.inventory_logs) + 1, Len(db'.inventory_logs))

\* the rows appended by the step are one per ingredient of ded, of the given
\* type and for the quantity of ded
LoggedAs(ded, change_type) ==
    /\ Len(NewLogs) = Len(ded)
    /\ \A ing \in KeySet(ded) :
           \E k \in 1..Len(NewLogs) :
               /\ NewLogs[k].ingredient = ing
               /\ NewLogs[k].change_type = change_type
               /\ NewLogs[k].quantity_changed = DictGet(ded, ing, 0)

\* C13: a sale that deducts Q of an ingredient and the cancellation that
\* restocks Q of it write two inventory log entries of opposite types: the
\* successful sale appends one "Wasted" entry per deducted ingredient, its
\* cancellation one "Added" entry per restocked ingredient.
C13_SaleAndRestockAreLogged ==
    [][/\ (SaleStep /\ sales'[Len(sales')].outcome = "success") =>
              LoggedAs(sales'[Len(sales')].deduction, "Wasted")
       /\ \A i \in 1..MaxInvoices :
              (CancelStep(i) /\ sales[i].outcome = "success") =>
                  LoggedAs(sales[i].deduction, "Added")]_vars

NoBomEntry(bomT, lines) ==
    \A n \in 1..Len(lines) :
        \A ing \in Ingredients : ~InRecipe(bomT, lines[n].product_id, ing)

C16_EmptyCartEmptyMap ==
    \A k \in 1..Len(calls) : calls[k].cart = <<>> => calls[k].result = <<>>

\* the empty cart was passed with a bom table that has rows
C16_Witness ==
    \E k \in 1..Len(calls) :
        /\ calls[k].cart = <<>>
        /\ calls[k].before.bom = DefaultBomRows
        /\ calls[k].result = <<>>

\* the carts hold the same lines, in any order
SameLines(a, b) ==
    /\ Len(a) = Len(b)
    /\ \A line \in CartLines :
           Cardinality({i \in 1..Len(a) : a[i] = line})
               = Cardinality({i \in 1..Len(b) : b[i] = line})

\* identical carts give identical results and carts with the same lines in
\* another order give the same totals
Deterministic ==
    \A j, k \in 1..Len(calls) :
        /\ calls[j].cart = calls[k].cart => calls[j].result = calls[k].result
        /\ SameLines(calls[j].cart, calls[k].cart) =>
               AsMap(calls[j].result) = AsMap(calls[k].result)

\* C17 as stated: a call of calculate_deduction changes no stored state,
\* identical carts yield identical totals and a permutation of the cart's
\* lines does not change the result.
C17_Pure ==
    /\ \A k \in 1..Len(calls) : calls[k].after = calls[k].before
    /\ Deterministic

\* C17: a call of calculate_deduction changes no stored state other than the
\* bom table, which it fills with the rows of DEFAULT_BOM when it is empty
\* and leaves alone otherwise; identical carts yield identical totals and a
\* permutation of the cart's lines does not change the totals.
C17_PureButForSeeding ==
    /\ \A k \in 1..Len(calls) :
           /\ calls[k].after = [calls[k].before EXCEPT !.bom = calls[k].after.bom]
           /\ calls[k].after.bom = IF calls[k].before.bom = {} THEN DefaultBomRows
                                   ELSE calls[k].before.bom
    /\ Deterministic

\* a cart of two lines that share an ingredient was passed in both orders,
\* the first call on an empty bom table
C17_Witness ==
    /\ Len(calls) = 2
    /\ calls[1].before.bom = {}
    /\ calls[1].before.inventory # {}
    /\ calls[1].cart = <<CartLine("C1003", 2), CartLine("C1002", 1)>>
    /\ calls[2].cart = <<CartLine("C1002", 1), CartLine("C1003", 2)>>
    /\ calls[1].after.bom = DefaultBomRows
    /\ AsMap(calls[2].result) = ("Espresso Beans" :> 54) @@ ("Milk" :> 550)

\* C18: under any interleaving of two sessions that ensure a row for the
\* same ingredient, there is one row for the ingredient and neither handler
\* fails because of the other.
C18_ConcurrentEnsureIsSafe ==
    /\ \A ing \in Ingredients : Cardinality(InventoryRows(db.inventory, ing)) <= 1
    /\ \A s \in Sessions : ~proc[s].raised

\* C19: no committed update of a quantity is lost: once no handler is
\* running, every quantity is what the committed writes add up to.
C19_NoLostUpdate ==
    (\A s \in Sessions : proc[s].ops = <<>>) =>
        \A ing \in Ingredients : Quantity(ing) = expected[ing]

\* the ingredient keys of the inventory table
InventoryKeys(inv) == {r.ingredient : r \in inv}

SaveInventoryStep(s) ==
    \E qty \in EditQuantities, safety_stock \in EditSafetyStocks, log_ok \in BOOLEAN :
        SaveInventory(s, "Milk", qty, safety_stock, log_ok)

\* the step writes what, of the pages, only save_inventory_df writes: a
\* safety stock or a row of inventory_logs (db.replace_inventory, which no
\* page calls, writes whole rows)
AdminWrite ==
    /\ ~\E df \in ResetFrames : ReplaceInventory(df)
    /\ \/ Len(db'.inventory_logs) > Len(db.inventory_logs)
       \/ \E r \in db.inventory, q \in db'.inventory :
              r.ingredient = q.ingredient /\ r.safety_stock # q.safety_stock

\* C21: the administrative inventory write is gated by the credential check:
\* save_inventory_df runs only in a session whose inventory_edit_enabled is
\* true, the flag becomes true only by a Login with uid = ADMIN_ID and
\* pwd = ADMIN_PASS, a failed Login leaves it false, and a completed Save
\* Inventory sets it back to false.
C21_SaveGatedByLogin ==
    [][/\ (AdminWrite \/ SaveInventoryStep("s1")) =>
              /\ inventory_edit_enabled["s1"]
              /\ ~inventory_edit_enabled'["s1"]
       /\ (~inventory_edit_enabled["s1"] /\ inventory_edit_enabled'["s1"]) =>
              Login("s1", ADMIN_ID, ADMIN_PASS)
       /\ \A uid \in Credentials, pwd \in Credentials :
              (Login("s1", uid, pwd) /\ ~(uid = "123" /\ pwd = "456")) =>
                  ~inventory_edit_enabled'["s1"]]_vars

\* a Save Inventory has completed (its log entry is there), editing is off
\* again and the login form is asked for anew
C21_Witness ==
    /\ db.inventory_logs # <<>>
    /\ ~inventory_edit_enabled["s1"]
    /\ login_prompt["s1"]

\* the rows of inventory_logs the step appends for ing
NewLogsOf(ing) == {k \in 1..Len(NewLogs) : NewLogs[k].ingredient = ing}

\* C22: for every ingredient whose row existed before an administrative
\* save, the save appends exactly one log entry when the quantity changed
\* ("Added" for new > old, "Wasted" for new < old, quantity_changed =
\* |new - old|, old_quantity and new_quantity the quantities before and after)
\* and none when it did not; no step removes or rewrites a log entry.
C22_SaveLogsEachChange ==
    [][/\ SaveInventoryStep("s1") =>
              \A ing \in InventoryKeys(db.inventory) :
                  LET old == Quantity(ing)
                      new == QuantityOf(db'.inventory, ing)
                  IN  IF new = old THEN NewLogsOf(ing) = {}
                      ELSE /\ Cardinality(NewLogsOf(ing)) = 1
                           /\ \A k \in NewLogsOf(ing) :
                                  /\ NewLogs[k].change_type
                                         = IF new > old THEN "Added" ELSE "Wasted"
                                  /\ NewLogs[k].quantity_changed
                                         = IF new > old THEN new - old ELSE old - new
                                  /\ NewLogs[k].old_quantity = old
                                  /\ NewLogs[k].new_quantity = new
       /\ Len(db'.inventory_logs) >= Len(db.inventory_logs)
       /\ SubSeq(db'.inventory_logs, 1, Len(db.inventory_logs)) = db.inventory_logs]_vars

\* C23: when save_inventory_df writes an ingredient that has no inventory row
\* yet, the row is created with the quantity of the frame and no log entry is
\* appended for it, whatever the quantity is.
C23_NoLogForNewRow ==
    [][\A df \in SaveFrames, log_ok \in BOOLEAN :
           CallSaveInventoryDf(df, log_ok) =>
               \A i \in 1..Len(df) :
                   InventoryRows(db.inventory, df[i].ingredient) = {} =>
                       /\ InventoryRows(db'.inventory, df[i].ingredient) = {df[i]}
                       /\ NewLogsOf(df[i].ingredient) = {}]_vars

\* one save has logged the change of Milk and created Sugar at 500 without a
\* log entry
C23_Witness ==
    /\ Len(db.inventory_logs) = 1
    /\ db.inventory_logs[1].ingredient = "Milk"
    /\ [ingredient |-> "Sugar", quantity |-> 500, unit |-> UnitOf("Sugar"),
        safety_stock |-> 0] \in db.inventory

\* the statuses of the billing rows of the invoice
InvoiceStatus(d, invoice_id) ==
    {d.billing[k].status : k \in {j \in 1..Len(d.billing) :
                                     d.billing[j].invoice_id = invoice_id}}

\* the step is a restock UPDATE of a "Cancel Order" of the invoice
RestockStep(invoice_id) ==
    \E s \in Sessions :
        /\ proc[s].ops # <<>>
        /\ proc'[s].ops = Tail(proc[s].ops)
        /\ Head(proc[s].ops).kind = "UpdateInventory"
        /\ Head(proc[s].ops).delta > 0
        /\ Head(proc[s].ops).invoice_id = invoice_id

\* C24: inventory is restocked for an invoice only while its status is
\* 'ongoing': once one of two sessions has marked it 'done' or 'canceled', no
\* Cancel Order of it adds stock, and a 'done' invoice never becomes
\* 'canceled'.
C24_RestockOnlyWhileOngoing ==
    [][\A invoice_id \in 1..EarlierInvoice :
           /\ RestockStep(invoice_id) => InvoiceStatus(db, invoice_id) = {"ongoing"}
           /\ InvoiceStatus(db, invoice_id) = {"done"} =>
                  InvoiceStatus(db', invoice_id) = {"done"}]_vars

\* the order_items rows of the order
ItemsOf(d, order_id) == {r \in d.order_items : r.order_id = order_id}

\* C25: Park / Update Order replaces the stored items of the order
\* atomically: after save_cart_to_order has returned or raised, the
\* order_items rows of the order are exactly the cart's lines, one row per
\* line, or exactly what they were before, also for a cart with two lines of
\* the same product_id.
C25_ParkIsAtomic ==
    [][ParkOrder("s1") =>
           LET oid == current_order_id'["s1"]
           IN  \/ ItemsOf(db', oid) = ItemsOf(db, oid)
               \/ /\ ItemsOf(db', oid) = SeqToSet(OrderItemRows(oid, order_cart["s1"]))
                  /\ Cardinality(ItemsOf(db', oid)) = Len(order_cart["s1"])]_vars

\* the rows of billing the step appends
NewBilling == SubSeq(db'.billing, Len(db.billing) + 1, Len(db'.billing))

\* C26: the invoice and the deduction of a Mark as Paid are those of the
\* lines of the session's order cart at that moment: the billing rows written
\* by finalize_payment are the cart's lines, one row per line, and the
\* deduction is the deduction of the cart.
C26_InvoiceIsTheCart ==
    [][(SaleStep /\ sales'[Len(sales')].order # None
            /\ sales'[Len(sales')].outcome = "success") =>
           /\ Len(NewBilling) = Len(order_cart["s1"])
           /\ \A k \in 1..Len(NewBilling) :
                  /\ k <= Len(order_cart["s1"])
                  /\ NewBilling[k].product_id = order_cart["s1"][k].product_id
                  /\ NewBilling[k].quantity = order_cart["s1"][k].quantity
                  /\ NewBilling[k].total = order_cart["s1"][k].total
           /\ AsMap(sales'[Len(sales')].deduction)
                  = AsMap(CalculateDeduction(db'.bom, order_cart["s1"]))]_vars
====
